---- MODULE Spec2Model ----
(***************************************************************************)
(* Universal LUT generator: the React component UniversalLUTGenerator      *)
(* (src/unnamed/part_000, first variant, lines 38-1080) as a state machine.*)
(*                                                                         *)
(* Numbers.  The program computes in IEEE doubles; the model computes in   *)
(* fixed point with Scale units per 1.0 (so 0.299 is 299).  A product of   *)
(* two fixed-point numbers is Mul, a quotient FDiv.  Math.pow with a       *)
(* fractional exponent is computed by repeated square roots (Pow).  The    *)
(* only non-finite double the program can produce is NaN (Math.pow of a    *)
(* negative base, 0/0); it is the value NaN below, and every operation     *)
(* that can receive it propagates it the way JavaScript does.              *)
(***************************************************************************)
EXTENDS Integers, Sequences, FiniteSets, TLC

\* ------------------------------------------------------------------ bounds
\* Largest LUT resolution of the model.  The program offers 17, 33 and 65;
\* the lattice loop is the same for every size >= 2.
MaxRes == 3
\* Largest number of files in one upload (the program accepts up to 10).
MaxImages == 2
\* Largest number of user actions (upload, remove, setting change, generate
\* click, download) in one behaviour; the events of a run's images are not counted.
MaxUiEvents == 3

\* Largest number of pixels of a buffer given to detectBlackAndWhite or to
\* the sampling loop on its own: enough for 22 pixels at stride 40 bytes.
MaxPixels == 211

\* Largest number of files of the uploads that are being read at a time:
\* one selection of the largest size, or several small ones.
MaxFilesInFlight == 10

\* Largest number of uploads whose files are being read at a time.
MaxReading == 2

\* --------------------------------------------------------------- numbers
Scale == 1000
NaN == -999999999

Max2(a, b) == IF a >= b THEN a ELSE b
Min2(a, b) == IF a <= b THEN a ELSE b

\* JavaScript arithmetic on fixed-point numbers: NaN in, NaN out
Add(a, b) == IF a = NaN \/ b = NaN THEN NaN ELSE a + b
Sub(a, b) == IF a = NaN \/ b = NaN THEN NaN ELSE a - b
Mul(a, b) == IF a = NaN \/ b = NaN THEN NaN ELSE (a * b) \div Scale
\* a / b; 0/0 is NaN (no other division by zero occurs with the program's profile)
FDiv(a, b) == IF a = NaN \/ b = NaN \/ b = 0 THEN NaN ELSE (a * Scale) \div b
\* a / n with n a plain count; 0/0 is NaN
CountDiv(a, n) == IF a = NaN \/ n = 0 THEN NaN ELSE a \div n
\* Math.max and Math.min return NaN if either argument is NaN
MathMax(a, b) == IF a = NaN \/ b = NaN THEN NaN ELSE Max2(a, b)
MathMin(a, b) == IF a = NaN \/ b = NaN THEN NaN ELSE Min2(a, b)
\* a < b and a > b are false when either side is NaN
Lt(a, b) == a # NaN /\ b # NaN /\ a < b
Gt(a, b) == a # NaN /\ b # NaN /\ a > b

\* Math.max(0, Math.min(1, x))
Clamp01(x) == MathMax(0, MathMin(Scale, x))

RECURSIVE SqrtSearch(_, _, _)
SqrtSearch(n, lo, hi) ==
  IF lo >= hi THEN lo
  ELSE LET mid == (lo + hi + 1) \div 2
       IN IF mid * mid <= n THEN SqrtSearch(n, mid, hi)
                            ELSE SqrtSearch(n, lo, mid - 1)
\* square root of a fixed-point number in [0, 4]
Sqrt(x) == SqrtSearch(x * Scale, 0, 2 * Scale)

RECURSIVE IntPow(_, _)
IntPow(x, k) == IF k = 0 THEN Scale ELSE Mul(x, IntPow(x, k - 1))

\* x^(f/1024), 0 <= f < 1024, from the binary digits of f: root is x^(bit/1024)
RECURSIVE PowBits(_, _, _, _)
PowBits(root, f, bit, acc) ==
  IF bit = 0 \/ f = 0 THEN acc
  ELSE PowBits(Sqrt(root), f % bit, bit \div 2,
               IF f >= bit THEN Mul(acc, root) ELSE acc)

\* Math.pow(x, e) of a base x >= 0 for a fixed-point exponent e >= 0
PowOf(x, e) ==
  IF x = 0 THEN (IF e = 0 THEN Scale ELSE 0)
  ELSE Mul(IntPow(x, e \div Scale),
           PowBits(Sqrt(x), ((e % Scale) * 1024) \div Scale, 512, Scale))

\* the exponents the program raises to: 1/3 (rgbToLab), the zone weight
\* exponents 0.5, 0.6, 0.7, 0.8, and the S-curve strengths 1.06 .. 1.30
Exponents == {333, 500, 600, 700, 800, 1060, 1120, 1180, 1240, 1300}

\* PowOf tabulated once for the bases in [0, 1] and the program's exponents
PowTable == [e \in Exponents |-> ([x \in 0..Scale |-> PowOf(x, e)] @@ <<>>)] @@ <<>>

\* Math.pow(x, e): NaN for NaN and for a negative base with a fractional
\* exponent, as in JavaScript
Pow(x, e) ==
  IF x = NaN THEN NaN
  ELSE IF x < 0 /\ e % Scale # 0 THEN NaN
  ELSE IF x <= Scale /\ x >= 0 /\ e \in Exponents THEN PowTable[e][x]
  ELSE PowOf(x, e)

\* Number.prototype.toFixed(6): the number in millionths, "NaN" for NaN
ToFixed6(x) == IF x = NaN THEN NaN ELSE x * (1000000 \div Scale)

\* ------------------------------------------------------- colour conversion
universalCameraProfile ==
  [shadows    |-> [lift  |-> [r |-> 15,  g |-> 12,  b |-> 8]],
   midtones   |-> [gamma |-> [r |-> 500, g |-> 500, b |-> 500]],
   highlights |-> [gain  |-> [r |-> 950, g |-> 950, b |-> 950]],
   colorMatrix |-> << <<Scale, 0, 0>>, <<0, Scale, 0>>, <<0, 0, Scale>> >>]

LabF(t) == IF t > 9 THEN Pow(t, 333) ELSE Mul(7787, t) + (16 * Scale) \div 116

rgbToLab(r, g, b) ==
  LET x == FDiv(Mul(r, 412) + Mul(g, 358) + Mul(b, 180), 950)
      y == Mul(r, 213) + Mul(g, 715) + Mul(b, 72)
      z == FDiv(Mul(r, 19) + Mul(g, 119) + Mul(b, 950), 1089)
      fx == LabF(x)
      fy == LabF(y)
      fz == LabF(z)
  IN [L |-> 116 * fy - 16 * Scale, a |-> 500 * (fx - fy), b |-> 200 * (fy - fz)]

Methods == {"luminance", "average", "red", "green", "blue", "max", "min"}

\* the argument of a call that leaves the method out
Undefined == "undefined"

\* 0.299 * r + 0.587 * g + 0.114 * b
Luminance(r, g, b) ==
  IF r = NaN \/ g = NaN \/ b = NaN THEN NaN
  ELSE (299 * r + 587 * g + 114 * b) \div Scale

\* faulty variant of rgbToGrayscale: the default case returns the average
rgbToGrayscaleDefaultAverage(r, g, b, method) ==
  CASE method = "luminance" -> Luminance(r, g, b)
    [] method = "average"   -> CountDiv(Add(Add(r, g), b), 3)
    [] method = "red"       -> r
    [] method = "green"     -> g
    [] method = "blue"      -> b
    [] method = "max"       -> MathMax(r, MathMax(g, b))
    [] method = "min"       -> MathMin(r, MathMin(g, b))
    [] OTHER                -> CountDiv(Add(Add(r, g), b), 3)

\* the switch of lines 125-142 on the method after the default parameter
\* of line 123 has been applied
GrayscaleSwitch(r, g, b, method) ==
  CASE method = "luminance" -> Luminance(r, g, b)
    [] method = "average"   -> CountDiv(Add(Add(r, g), b), 3)
    [] method = "red"       -> r
    [] method = "green"     -> g
    [] method = "blue"      -> b
    [] method = "max"       -> MathMax(r, MathMax(g, b))
    [] method = "min"       -> MathMin(r, MathMin(g, b))
    [] OTHER                -> Luminance(r, g, b)

rgbToGrayscale(r, g, b, method) ==
  GrayscaleSwitch(r, g, b, IF method = Undefined THEN "luminance" ELSE method)

\* ------------------------------------------------------------ image data
Null == [null |-> TRUE]

\* The decoded RGBA buffers the canvas hands to the analysis (ctx.getImageData),
\* one per reference image of the model, as byte sequences:
\*   "grey"   33 pixels, R = G = B, from black to mid grey (no highlights)
\*   "warm"   17 pixels of one saturated mid-tone orange
\*   "mixed"  33 pixels: dark blue, then pale yellow, then purple
ImageKinds == {"grey", "warm", "mixed"}

PixelOf(kind, k) ==
  CASE kind = "grey"  -> <<k * 3, k * 3, k * 3, 255>>
    [] kind = "warm"  -> <<200, 100, 50, 255>>
    [] kind = "mixed" -> IF k < 16 THEN <<10, 20, 60, 255>>
                         ELSE IF k < 32 THEN <<250, 240, 120, 255>>
                         ELSE <<180, 90, 200, 255>>

PixelCount(kind) == IF kind = "warm" THEN 17 ELSE 33

\* imageData.data: byte j (from 1) is channel (j-1) % 4 of pixel (j-1) \div 4
ImageData(kind) ==
  [j \in 1..(4 * PixelCount(kind)) |-> PixelOf(kind, (j - 1) \div 4)[((j - 1) % 4) + 1]]

\* the offsets i = 0, stride, 2*stride, ... < len of a for loop, in order
Offsets(len, stride) ==
  [k \in 1..((len + stride - 1) \div stride) |-> (k - 1) * stride]

Abs(x) == IF x < 0 THEN -x ELSE x

RECURSIVE CountColourful(_, _, _)
CountColourful(data, offs, k) ==
  IF k > Len(offs) THEN 0
  ELSE LET i == offs[k]
           r == data[i + 1]
           g == data[i + 2]
           b == data[i + 3]
       IN (IF Max2(Abs(r - g), Max2(Abs(g - b), Abs(r - b))) > 10 THEN 1 ELSE 0)
          + CountColourful(data, offs, k + 1)

\* colourfulPixels / (data.length / 40) < 0.05, with the quotient of reals
\* compared exactly; 0 / 0 is NaN and NaN < 0.05 is false
\* faulty variant of detectBlackAndWhite: data.length / 40 as an integer division
detectBlackAndWhiteFloor(data) ==
  LET colourfulPixels == CountColourful(data, Offsets(Len(data), 40), 1)
  IN Len(data) \div 40 > 0 /\ colourfulPixels * 100 < 5 * (Len(data) \div 40)

detectBlackAndWhite(data) ==
  LET colourfulPixels == CountColourful(data, Offsets(Len(data), 40), 1)
  IN Len(data) > 0 /\ colourfulPixels * 40 * 100 < 5 * Len(data)

\* faulty variant of Sample: the zone tests include the upper limit
SampleInclusive(data, i) ==
  LET r == (data[i + 1] * Scale) \div 255
      g == (data[i + 2] * Scale) \div 255
      b == (data[i + 3] * Scale) \div 255
      luminance == rgbToGrayscale(r, g, b, "luminance")
  IN [r |-> r, g |-> g, b |-> b, luminance |-> luminance, lab |-> rgbToLab(r, g, b),
      zone |-> IF luminance <= 250 THEN "shadows"
               ELSE IF luminance <= 750 THEN "midtones" ELSE "highlights"]

\* one sampled pixel of the loop of analyzeImageAdvanced
Sample(data, i) ==
  LET r == (data[i + 1] * Scale) \div 255
      g == (data[i + 2] * Scale) \div 255
      b == (data[i + 3] * Scale) \div 255
      luminance == rgbToGrayscale(r, g, b, "luminance")
  IN [r |-> r, g |-> g, b |-> b, luminance |-> luminance, lab |-> rgbToLab(r, g, b),
      zone |-> IF luminance < 250 THEN "shadows"
               ELSE IF luminance < 750 THEN "midtones" ELSE "highlights"]

\* the samples pushed to one zone's arrays, in loop order
RECURSIVE ZoneSamples(_, _, _, _)
ZoneSamples(data, offs, k, zone) ==
  IF k > Len(offs) THEN <<>>
  ELSE LET s == Sample(data, offs[k])
       IN (IF s.zone = zone THEN <<s>> ELSE <<>>) \o ZoneSamples(data, offs, k + 1, zone)

RECURSIVE SumSeq(_, _)
SumSeq(xs, k) == IF k > Len(xs) THEN 0 ELSE xs[k] + SumSeq(xs, k + 1)

Mean(xs) == CountDiv(SumSeq(xs, 1), Len(xs))

processZone(zone) ==
  IF Len(zone) = 0 THEN Null
  ELSE [count |-> Len(zone),
        rgb |-> [r |-> Mean([k \in 1..Len(zone) |-> zone[k].r]),
                 g |-> Mean([k \in 1..Len(zone) |-> zone[k].g]),
                 b |-> Mean([k \in 1..Len(zone) |-> zone[k].b])],
        luminance |-> [avg |-> Mean([k \in 1..Len(zone) |-> zone[k].luminance])],
        lab |-> [L |-> Mean([k \in 1..Len(zone) |-> zone[k].lab.L]),
                 a |-> Mean([k \in 1..Len(zone) |-> zone[k].lab.a]),
                 b |-> Mean([k \in 1..Len(zone) |-> zone[k].lab.b])]]

\* the value analyzeImageAdvanced resolves with for a decoded buffer
analyzeImageData(data) ==
  LET offs == Offsets(Len(data), 64)
  IN [isBlackAndWhite |-> detectBlackAndWhite(data),
      shadows    |-> processZone(ZoneSamples(data, offs, 1, "shadows")),
      midtones   |-> processZone(ZoneSamples(data, offs, 1, "midtones")),
      highlights |-> processZone(ZoneSamples(data, offs, 1, "highlights"))]

\* ------------------------------------------------------------ aggregation
IntensityLevels == 1..5

\* the zone entry of combinedAnalysis before any image is added (lines 385-402)
EmptyZone ==
  [rgb |-> [r |-> 0, g |-> 0, b |-> 0], luminance |-> [avg |-> 0],
   lab |-> [L |-> 0, a |-> 0, b |-> 0], weight |-> 0]

\* faulty variant of AddToZone: every image counts once, whatever the number
\* of its pixels in the zone
AddToZoneUnweighted(acc, z) ==
  IF z # Null /\ z.count > 0
  THEN [rgb |-> [r |-> acc.rgb.r + z.rgb.r, g |-> acc.rgb.g + z.rgb.g,
                 b |-> acc.rgb.b + z.rgb.b],
        luminance |-> [avg |-> acc.luminance.avg + z.luminance.avg],
        lab |-> [L |-> acc.lab.L + z.lab.L, a |-> acc.lab.a + z.lab.a,
                 b |-> acc.lab.b + z.lab.b],
        weight |-> acc.weight + 1]
  ELSE acc

\* one step of analyses.forEach for one zone (lines 412-423)
AddToZone(acc, z) ==
  IF z # Null /\ z.count > 0
  THEN LET weight == z.count
       IN [rgb |-> [r |-> acc.rgb.r + z.rgb.r * weight,
                    g |-> acc.rgb.g + z.rgb.g * weight,
                    b |-> acc.rgb.b + z.rgb.b * weight],
           luminance |-> [avg |-> acc.luminance.avg + z.luminance.avg * weight],
           lab |-> [L |-> acc.lab.L + z.lab.L * weight,
                    a |-> acc.lab.a + z.lab.a * weight,
                    b |-> acc.lab.b + z.lab.b * weight],
           weight |-> acc.weight + weight]
  ELSE acc

RECURSIVE SumZone(_, _, _)
SumZone(analyses, zone, k) ==
  IF k = 0 THEN EmptyZone
  ELSE AddToZone(SumZone(analyses, zone, k - 1), analyses[k][zone])

\* the divisions of lines 428-434
DivideSums(acc) ==
  [rgb |-> [r |-> CountDiv(acc.rgb.r, acc.weight),
            g |-> CountDiv(acc.rgb.g, acc.weight),
            b |-> CountDiv(acc.rgb.b, acc.weight)],
   luminance |-> [avg |-> CountDiv(acc.luminance.avg, acc.weight)],
   lab |-> [L |-> CountDiv(acc.lab.L, acc.weight),
            a |-> CountDiv(acc.lab.a, acc.weight),
            b |-> CountDiv(acc.lab.b, acc.weight)],
   weight |-> acc.weight]

\* faulty variant of DivideZone: the division without the guard of line 427
DivideZoneAlways(acc) == DivideSums(acc)

\* lines 426-436: divide the sums by the zone weight only if it is > 0
DivideZone(acc) == IF acc.weight > 0 THEN DivideSums(acc) ELSE acc

RECURSIVE AnyBlackAndWhite(_, _)
AnyBlackAndWhite(analyses, k) ==
  IF k = 0 THEN FALSE
  ELSE analyses[k].isBlackAndWhite \/ AnyBlackAndWhite(analyses, k - 1)

\* faulty variant of hasBlackAndWhite: analyses.every instead of analyses.some
hasBlackAndWhiteEvery(analyses) ==
  \A k \in 1..Len(analyses) : analyses[k].isBlackAndWhite

\* analyses.some((a) => a.isBlackAndWhite)
hasBlackAndWhite(analyses) == AnyBlackAndWhite(analyses, Len(analyses))

\* combinedAnalysis of lines 383-436
combineAnalyses(analyses) ==
  [isBlackAndWhite |-> hasBlackAndWhite(analyses),
   shadows    |-> DivideZone(SumZone(analyses, "shadows", Len(analyses))),
   midtones   |-> DivideZone(SumZone(analyses, "midtones", Len(analyses))),
   highlights |-> DivideZone(SumZone(analyses, "highlights", Len(analyses))),
   globalStats |-> [contrast |-> 500, saturation |-> 500,
                    colorTemperature |-> 0, tint |-> 0]]

\* ---------------------------------------------------------------- transforms
\* faulty variant of TransformChannel: without the lower limit
TransformChannelNoFloor(target, neutral, finalIntensity) ==
  MathMin(3 * Scale, Add(Mul(Sub(FDiv(target, neutral), Scale), finalIntensity), Scale))

TransformChannel(target, neutral, finalIntensity) ==
  MathMin(3 * Scale,
          MathMax(100, Add(Mul(Sub(FDiv(target, neutral), Scale), finalIntensity), Scale)))

calculateTransform(neutralBase, targetRgb, level) ==
  LET baseIntensity == 500 + (level - 1) * 250
      finalIntensity == baseIntensity
  IN [r |-> TransformChannel(targetRgb.r, neutralBase.r, finalIntensity),
      g |-> TransformChannel(targetRgb.g, neutralBase.g, finalIntensity),
      b |-> TransformChannel(targetRgb.b, neutralBase.b, finalIntensity)]

transformsOf(combined, level) ==
  [shadows    |-> calculateTransform(universalCameraProfile.shadows.lift,
                                     combined.shadows.rgb, level),
   midtones   |-> calculateTransform(universalCameraProfile.midtones.gamma,
                                     combined.midtones.rgb, level),
   highlights |-> calculateTransform(universalCameraProfile.highlights.gain,
                                     combined.highlights.rgb, level)]

\* ------------------------------------------------------------- lattice cell
\* a JavaScript object is truthy, null is not
Truthy(x) == x # Null

\* running * (1 - f) + target * f
Blend(running, target, f) == Add(Mul(running, Sub(Scale, f)), Mul(target, f))

\* the zone weights of lines 519-527 (edge 0.3) and 554-562 (edge 0.35)
\* faulty variant of ShadowWeight: the ramp ends at 0.8
ShadowWeightWide(v, edge) == MathMax(0, MathMin(Scale, FDiv(Sub(800, v), 800)))

ShadowWeight(v, edge) == MathMax(0, MathMin(Scale, FDiv(Sub(edge, v), edge)))
HighlightWeight(v, edge) ==
  MathMax(0, MathMin(Scale, FDiv(Sub(v, Sub(Scale, edge)), edge)))
MidtoneWeight(shadowWeight, highlightWeight) ==
  MathMax(0, Sub(Sub(Scale, shadowWeight), highlightWeight))

\* the blend of one zone step of the monochrome branch, factor = weight^exponent
MonoBlend(mapped, target, factor, intensityFactor) ==
  Add(Mul(mapped, Sub(Scale, Mul(factor, intensityFactor))),
      Mul(Mul(target, factor), intensityFactor))

\* one zone step of the monochrome branch (lines 529-535, 536-542, 543-549)
MonoStep(mapped, weight, luminance, exponent, intensityFactor) ==
  IF Gt(weight, 0) /\ Truthy(luminance)
  THEN MonoBlend(mapped, luminance.avg, Pow(weight, exponent), intensityFactor)
  ELSE mapped

\* lines 528-551 from the grayscale value and the two edge weights
MonoMap(grayscale, shadowWeight, highlightWeight, combined, intensityFactor) ==
  MathMax(0, MathMin(Scale,
    MonoStep(
      MonoStep(
        MonoStep(grayscale, shadowWeight, combined.shadows.luminance, 800,
                 intensityFactor),
        MidtoneWeight(shadowWeight, highlightWeight), combined.midtones.luminance, 600,
        intensityFactor),
      highlightWeight, combined.highlights.luminance, 800, intensityFactor)))

Grey(v) == <<v, v, v>>

MonoOfGray(grayscale, combined, level) ==
  Grey(MonoMap(grayscale, ShadowWeight(grayscale, 300), HighlightWeight(grayscale, 300),
               combined, level * 200))

\* faulty variant of MonoCell: the grayscale value is always the luminance
MonoCellLuminance(input, combined, level, method) ==
  MonoOfGray(rgbToGrayscale(input[1], input[2], input[3], "luminance"), combined, level)

\* lines 511-551: the monochrome branch for one lattice input
MonoCell(input, combined, level, method) ==
  MonoOfGray(rgbToGrayscale(input[1], input[2], input[3], method), combined, level)

\* lines 629-633
applySCurve(value, strength) ==
  IF Lt(value, 500)
  THEN FDiv(Pow(Mul(value, 2 * Scale), strength), 2 * Scale)
  ELSE Sub(Scale, FDiv(Pow(Mul(Sub(Scale, value), 2 * Scale), strength), 2 * Scale))

\* lines 566-577 and 587-598: a shadow or highlight step on the three channels
EdgeBlend(out, input, gain, zoneMean, keep, pull, factor) ==
  <<Blend(out[1], Add(Mul(Mul(input[1], gain.r), keep), Mul(zoneMean.r, pull)), factor),
    Blend(out[2], Add(Mul(Mul(input[2], gain.g), keep), Mul(zoneMean.g, pull)), factor),
    Blend(out[3], Add(Mul(Mul(input[3], gain.b), keep), Mul(zoneMean.b, pull)), factor)>>

\* lines 564-578
ShadowStep(out, input, weight, gain, zoneMean, blendStrength) ==
  IF Gt(weight, 0)
  THEN EdgeBlend(out, input, gain, zoneMean, 800, 200, Mul(Pow(weight, 700), blendStrength))
  ELSE out

\* lines 581-583
MidBlend(out, input, gain, factor) ==
  <<Add(Mul(out[1], Sub(Scale, factor)), Mul(Mul(input[1], gain.r), factor)),
    Add(Mul(out[2], Sub(Scale, factor)), Mul(Mul(input[2], gain.g), factor)),
    Add(Mul(out[3], Sub(Scale, factor)), Mul(Mul(input[3], gain.b), factor))>>

\* lines 579-584
MidtoneStep(out, input, weight, gain, blendStrength) ==
  IF Gt(weight, 0)
  THEN MidBlend(out, input, gain, Mul(Pow(weight, 500), blendStrength))
  ELSE out

\* lines 585-599
HighlightStep(out, input, weight, gain, zoneMean, blendStrength) ==
  IF Gt(weight, 0)
  THEN EdgeBlend(out, input, gain, zoneMean, 900, 100, Mul(Pow(weight, 700), blendStrength))
  ELSE out

\* lines 564-599: the three zone steps in their order, each on the running value
ZoneSteps(input, shadowWeight, highlightWeight, combined, transforms, blendStrength) ==
  HighlightStep(
    MidtoneStep(
      ShadowStep(input, input, shadowWeight, transforms.shadows, combined.shadows.rgb,
                 blendStrength),
      input, MidtoneWeight(shadowWeight, highlightWeight), transforms.midtones,
      blendStrength),
    input, highlightWeight, transforms.highlights, combined.highlights.rgb, blendStrength)

\* lines 601-615
ApplyMatrix(out, m) ==
  <<Add(Add(Mul(out[1], m[1][1]), Mul(out[2], m[1][2])), Mul(out[3], m[1][3])),
    Add(Add(Mul(out[1], m[2][1]), Mul(out[2], m[2][2])), Mul(out[3], m[2][3])),
    Add(Add(Mul(out[1], m[3][1]), Mul(out[2], m[3][2])), Mul(out[3], m[3][3]))>>

\* lines 617-619
GlobalShift(out, temperatureShift, tintShift) ==
  <<Add(out[1], temperatureShift), Add(out[2], tintShift), Sub(out[3], temperatureShift)>>

\* lines 626-628
Saturate(out, currentLum, saturationBoost) ==
  <<Add(currentLum, Mul(Sub(out[1], currentLum), saturationBoost)),
    Add(currentLum, Mul(Sub(out[2], currentLum), saturationBoost)),
    Add(currentLum, Mul(Sub(out[3], currentLum), saturationBoost))>>

\* lines 620-628
SaturationStep(out, saturationBoost) ==
  Saturate(out, rgbToGrayscale(out[1], out[2], out[3], "luminance"), saturationBoost)

\* lines 634-638
ContrastStep(out, contrastBoost) ==
  IF contrastBoost # Scale
  THEN <<applySCurve(out[1], contrastBoost), applySCurve(out[2], contrastBoost),
         applySCurve(out[3], contrastBoost)>>
  ELSE out

\* lines 485-492
contrastBoostOf(combined, level) ==
  Add(Scale, Mul(Sub(combined.globalStats.contrast, 300), level * 300))
saturationBoostOf(combined, level) ==
  Add(Scale, Mul(Sub(combined.globalStats.saturation, 400), level * 400))
temperatureShiftOf(combined, level) == Mul(combined.globalStats.colorTemperature, level * 2)
tintShiftOf(combined, level) == Mul(combined.globalStats.tint, level * 2)

\* lines 553-639: the colour branch for one lattice input
ColourCell(input, luminance, combined, transforms, level) ==
  ContrastStep(
    SaturationStep(
      GlobalShift(
        ApplyMatrix(
          ZoneSteps(input, ShadowWeight(luminance, 350), HighlightWeight(luminance, 350),
                    combined, transforms, level * 150),
          universalCameraProfile.colorMatrix),
        temperatureShiftOf(combined, level), tintShiftOf(combined, level)),
      saturationBoostOf(combined, level)),
    contrastBoostOf(combined, level))

\* ------------------------------------------------------------- lattice loop
\* the branch of line 510
BranchIsMono(combined) == combined.isBlackAndWhite

\* lines 640-645: clamp and format the three channels
DataLine(out) ==
  [tag |-> "RGB",
   r |-> ToFixed6(Clamp01(out[1])),
   g |-> ToFixed6(Clamp01(out[2])),
   b |-> ToFixed6(Clamp01(out[3]))]

\* faulty variant of CellOutput: the branch is chosen anew at each lattice
\* point, monochrome only where the input itself is grey
CellOutputPerPoint(input, combined, transforms, level, method) ==
  IF combined.isBlackAndWhite /\ input[1] = input[2] /\ input[2] = input[3]
  THEN MonoCell(input, combined, level, method)
  ELSE ColourCell(input, rgbToGrayscale(input[1], input[2], input[3], "luminance"),
                  combined, transforms, level)

\* lines 501-639 for the normalised input
CellOutput(input, combined, transforms, level, method) ==
  IF BranchIsMono(combined)
  THEN MonoCell(input, combined, level, method)
  ELSE ColourCell(input, rgbToGrayscale(input[1], input[2], input[3], "luminance"),
                  combined, transforms, level)

\* faulty variant of LutLine: the loop variables in the other nesting order
\* (red outermost, blue innermost)
LutLineRedOuter(r, g, b, lutSize, combined, transforms, level, method) ==
  DataLine(CellOutput(<<FDiv(b, lutSize - 1), FDiv(g, lutSize - 1),
                        FDiv(r, lutSize - 1)>>,
                      combined, transforms, level, method))

\* lines 498-645: the data line pushed for lattice coordinate (r, g, b)
LutLine(r, g, b, lutSize, combined, transforms, level, method) ==
  DataLine(CellOutput(<<FDiv(r, lutSize - 1), FDiv(g, lutSize - 1),
                        FDiv(b, lutSize - 1)>>,
                      combined, transforms, level, method))

\* the three nested for loops of lines 495-497, each as the lines it pushes
RECURSIVE LoopR(_, _, _, _, _, _, _, _)
LoopR(r, g, b, lutSize, combined, transforms, level, method) ==
  IF r >= lutSize THEN <<>>
  ELSE <<LutLine(r, g, b, lutSize, combined, transforms, level, method)>>
       \o LoopR(r + 1, g, b, lutSize, combined, transforms, level, method)

RECURSIVE LoopG(_, _, _, _, _, _, _)
LoopG(g, b, lutSize, combined, transforms, level, method) ==
  IF g >= lutSize THEN <<>>
  ELSE LoopR(0, g, b, lutSize, combined, transforms, level, method)
       \o LoopG(g + 1, b, lutSize, combined, transforms, level, method)

RECURSIVE LoopB(_, _, _, _, _, _)
LoopB(b, lutSize, combined, transforms, level, method) ==
  IF b >= lutSize THEN <<>>
  ELSE LoopG(0, b, lutSize, combined, transforms, level, method)
       \o LoopB(b + 1, lutSize, combined, transforms, level, method)

\* faulty variant of lutDataOf: the outer loop starts at 1
lutDataFromOne(lutSize, combined, level, method) ==
  LoopB(1, lutSize, combined, transformsOf(combined, level), level, method)

\* lutData after the loops
lutDataOf(lutSize, combined, level, method) ==
  LoopB(0, lutSize, combined, transformsOf(combined, level), level, method)

\* faulty variant of cubeContentOf: the text is built when only the first
\* blue plane has been pushed
cubeContentOfFirstPlane(lutData, combined, level, lutResolution) ==
  << [tag |-> "TITLE",
      lutType |-> IF combined.isBlackAndWhite THEN "B&W" ELSE "Colour",
      intensityLabel |-> level],
     [tag |-> "DOMAIN_MIN", r |-> 0, g |-> 0, b |-> 0],
     [tag |-> "DOMAIN_MAX", r |-> 1, g |-> 1, b |-> 1],
     [tag |-> "LUT_3D_SIZE", size |-> lutResolution],
     [tag |-> "BLANK"] >> \o SubSeq(lutData, 1, lutResolution * lutResolution)

\* cubeContent of lines 653-658, as its lines (the title's date is left out)
cubeContentOf(lutData, combined, level, lutResolution) ==
  << [tag |-> "TITLE",
      lutType |-> IF combined.isBlackAndWhite THEN "B&W" ELSE "Colour",
      intensityLabel |-> level],
     [tag |-> "DOMAIN_MIN", r |-> 0, g |-> 0, b |-> 0],
     [tag |-> "DOMAIN_MAX", r |-> 1, g |-> 1, b |-> 1],
     [tag |-> "LUT_3D_SIZE", size |-> lutResolution],
     [tag |-> "BLANK"] >> \o lutData

\* ------------------------------------------------------------------ state
\* The component's React state (lines 39-48), the generation run in flight
\* (the locals of generateAdvancedLUT that live across its awaits, with the
\* state values its closure captured when the button was clicked), the
\* file last handed to the browser by downloadLUT, the number of user actions
\* so far, and three history variables: how each image of the current (or
\* last) run settled, and, for the LUT held in generatedLUT and for the LUT
\* of the successful run before it, what the run was given.
VARIABLES
  referenceImages,     \* sequence of image kinds (the uploaded files' contents)
  isProcessing,
  generatedLUT,        \* Null or the lines of the .cube text
  colorAnalysis,       \* Null or the combined analysis
  processingStep,
  isBlackAndWhite,
  bwConversionMethod,
  intensityLevel,
  lutResolution,
  advancedMode,
  run,                 \* Null or [images, intensityLevel, lutResolution,
                       \*          bwConversionMethod, advancedMode, i, analyses]
  selected,            \* history: the number of files of the last change event
                       \* of the file input
  reading,             \* the uploads whose files are still being read, each
                       \* [files, newImages, loadedCount]
  inFlight,            \* history: number of calls of generateAdvancedLUT that
                       \* have not reached their finally block
  abandoned,           \* number of images given up by the timer whose load or
                       \* error event has not fired yet
  download,            \* Null or [name, content] of the last downloaded file
  uiEvents,            \* number of user actions so far
  outcomes,            \* history: "ok", "failed" or "timeout" for each settled
                       \* image of the run
  runAlerts,           \* alert dialogs of generateAdvancedLUT since the last click
  lutSource,           \* history: Null or [analyses, intensityLevel,
                       \*          lutResolution, bwConversionMethod] of generatedLUT
  prevLut,             \* history: Null or [source, data] of the run before
  resolutionAtEnd,     \* history: Null or the value of the lutResolution state
                       \* when the run of generatedLUT wrote it
  lutOrigin,           \* history: Null or [images, advancedMode] the run of
                       \* generatedLUT was started with
  probe,               \* Null, or the function and arguments of one call of a
                       \* function of the component on its own
  answer               \* Null or [value] of that call

vars == <<referenceImages, isProcessing, generatedLUT, colorAnalysis, processingStep,
          isBlackAndWhite, bwConversionMethod, intensityLevel, lutResolution,
          advancedMode, run, selected, reading, inFlight, abandoned, download, uiEvents, outcomes, runAlerts, lutSource, prevLut,
          resolutionAtEnd, lutOrigin, probe, answer>>

settings == <<bwConversionMethod, intensityLevel, lutResolution, advancedMode>>
history == <<lutSource, prevLut, resolutionAtEnd, lutOrigin>>
output == <<abandoned, download, outcomes, runAlerts, inFlight>>

LutSizes == 2..MaxRes

\* what analyzeImageAdvanced resolves with for each image of the model
analysisOf == [kind \in ImageKinds |-> analyzeImageData(ImageData(kind))]

\* the file selections of one upload: 1..MaxImages files
Selections == UNION {[1..n -> ImageKinds] : n \in 1..MaxImages}

\* the data lines of a .cube text: everything after the four header lines
\* and the blank line
DataLines(cube) == SubSeq(cube, 6, Len(cube))

\* the state after construction (lines 39-48); the smallest size of the model
\* stands for the default resolution
Init ==
  /\ referenceImages = <<>>
  /\ isProcessing = FALSE
  /\ generatedLUT = Null
  /\ colorAnalysis = Null
  /\ processingStep = ""
  /\ isBlackAndWhite = FALSE
  /\ bwConversionMethod = "luminance"
  /\ intensityLevel = 3
  /\ lutResolution = 2
  /\ advancedMode = TRUE
  /\ run = Null
  /\ selected = 0
  /\ reading = <<>>
  /\ inFlight = 0
  /\ abandoned = 0
  /\ download = Null
  /\ uiEvents = 0
  /\ outcomes = <<>>
  /\ runAlerts = 0
  /\ lutSource = Null
  /\ prevLut = Null
  /\ resolutionAtEnd = Null
  /\ lutOrigin = Null
  /\ probe = Null
  /\ answer = Null

\* one more user action, within the bound
UserAction ==
  /\ uiEvents < MaxUiEvents
  /\ uiEvents' = uiEvents + 1

\* ---------------------------------------------------------------- UI events
\* handleImageUpload (lines 321-346) at the moment its last file read
\* completes: setReferenceImages(newImages.filter(Boolean))
handleImageUpload(files) ==
  /\ UNCHANGED <<probe, answer, reading, selected>>
  /\ UserAction
  /\ referenceImages' = files
  /\ UNCHANGED <<isProcessing, generatedLUT, colorAnalysis, processingStep,
                 isBlackAndWhite, settings, run, history, output>>

RemoveAt(seq, k) == [j \in 1..(Len(seq) - 1) |-> IF j < k THEN seq[j] ELSE seq[j + 1]]

\* faulty variant of removeImage: the combined analysis is left in place
removeImageKeepsAnalysis(k) ==
  /\ UNCHANGED <<probe, answer, reading, selected>>
  /\ UserAction
  /\ k \in 1..Len(referenceImages)
  /\ referenceImages' = RemoveAt(referenceImages, k)
  /\ generatedLUT' = Null
  /\ isBlackAndWhite' = FALSE
  /\ lutSource' = Null
  /\ resolutionAtEnd' = Null
  /\ lutOrigin' = Null
  /\ UNCHANGED <<isProcessing, processingStep, settings, run, prevLut, output,
                 colorAnalysis>>

\* removeImage (lines 690-697) of the k-th image shown
removeImage(k) ==
  /\ UNCHANGED <<probe, answer, reading, selected>>
  /\ UserAction
  /\ k \in 1..Len(referenceImages)
  /\ referenceImages' = RemoveAt(referenceImages, k)
  /\ generatedLUT' = Null
  /\ colorAnalysis' = Null
  /\ isBlackAndWhite' = FALSE
  /\ lutSource' = Null
  /\ resolutionAtEnd' = Null
  /\ lutOrigin' = Null
  /\ UNCHANGED <<isProcessing, processingStep, settings, run, prevLut, output>>

\* the settings controls are rendered only while there are images (lines 777, 867)
setIntensityLevel(v) ==
  /\ UNCHANGED <<probe, answer, reading, selected>>
  /\ UserAction
  /\ Len(referenceImages) > 0
  /\ v # intensityLevel
  /\ intensityLevel' = v
  /\ UNCHANGED <<referenceImages, isProcessing, generatedLUT, colorAnalysis,
                 processingStep, isBlackAndWhite, bwConversionMethod, lutResolution,
                 advancedMode, run, history, output>>

setLutResolution(v) ==
  /\ UNCHANGED <<probe, answer, reading, selected>>
  /\ UserAction
  /\ Len(referenceImages) > 0
  /\ v # lutResolution
  /\ lutResolution' = v
  /\ UNCHANGED <<referenceImages, isProcessing, generatedLUT, colorAnalysis,
                 processingStep, isBlackAndWhite, bwConversionMethod, intensityLevel,
                 advancedMode, run, history, output>>

setBwConversionMethod(v) ==
  /\ UNCHANGED <<probe, answer, reading, selected>>
  /\ UserAction
  /\ Len(referenceImages) > 0
  /\ v # bwConversionMethod
  /\ bwConversionMethod' = v
  /\ UNCHANGED <<referenceImages, isProcessing, generatedLUT, colorAnalysis,
                 processingStep, isBlackAndWhite, intensityLevel, lutResolution,
                 advancedMode, run, history, output>>

\* the checkbox of lines 829-833: setAdvancedMode(e.target.checked)
setAdvancedMode(v) ==
  /\ UNCHANGED <<probe, answer, reading, selected>>
  /\ UserAction
  /\ Len(referenceImages) > 0
  /\ v # advancedMode
  /\ advancedMode' = v
  /\ UNCHANGED <<referenceImages, isProcessing, generatedLUT, colorAnalysis,
                 processingStep, isBlackAndWhite, bwConversionMethod, intensityLevel,
                 lutResolution, run, history, output>>

\* -------------------------------------------------------------- generation
\* faulty variant of Synthesize: the lattice branch reads the state variable
\* isBlackAndWhite, which still holds what the run before left there
SynthesizeStaleFlag(r, analyses, combinedAnalysis) ==
  /\ isBlackAndWhite' = hasBlackAndWhite(analyses)
  /\ colorAnalysis' = combinedAnalysis
  /\ generatedLUT' = cubeContentOf(lutDataOf(r.lutResolution,
                                             [combinedAnalysis EXCEPT
                                                !.isBlackAndWhite = isBlackAndWhite],
                                             r.intensityLevel, r.bwConversionMethod),
                                   combinedAnalysis, r.intensityLevel, r.lutResolution)
  /\ processingStep' = "Complete!"

\* faulty variant of Synthesize: the header is written from the lutResolution
\* state of the moment, not from the value the run was started with
SynthesizeHeaderFromState(r, analyses, combinedAnalysis) ==
  /\ isBlackAndWhite' = hasBlackAndWhite(analyses)
  /\ colorAnalysis' = combinedAnalysis
  /\ generatedLUT' = cubeContentOf(lutDataOf(r.lutResolution, combinedAnalysis,
                                             r.intensityLevel, r.bwConversionMethod),
                                   combinedAnalysis, r.intensityLevel, lutResolution)
  /\ processingStep' = "Complete!"

\* lines 377-660 for a non-empty analyses: the state a successful run leaves
Synthesize(r, analyses, combinedAnalysis) ==
  /\ isBlackAndWhite' = hasBlackAndWhite(analyses)
  /\ colorAnalysis' = combinedAnalysis
  /\ generatedLUT' = cubeContentOf(lutDataOf(r.lutResolution, combinedAnalysis,
                                             r.intensityLevel, r.bwConversionMethod),
                                   combinedAnalysis, r.intensityLevel, r.lutResolution)
  /\ processingStep' = "Complete!"

FinishSuccess(r, analyses) ==
     /\ Synthesize(r, analyses, combineAnalyses(analyses))
     /\ lutSource' = [analyses |-> analyses, intensityLevel |-> r.intensityLevel,
                      lutResolution |-> r.lutResolution,
                      bwConversionMethod |-> r.bwConversionMethod]
     /\ prevLut' = IF lutSource = Null
                   THEN prevLut
                   ELSE [source |-> lutSource, data |-> DataLines(generatedLUT)]
     /\ resolutionAtEnd' = lutResolution
     /\ lutOrigin' = [images |-> r.images, advancedMode |-> r.advancedMode]
     /\ UNCHANGED runAlerts

\* faulty variant of FinishEmpty: the catch block also drops what the run
\* before left
FinishEmptyClears ==
  /\ processingStep' = "Error occurred"
  /\ runAlerts' = runAlerts + 1
  /\ generatedLUT' = Null
  /\ colorAnalysis' = Null
  /\ isBlackAndWhite' = FALSE
  /\ lutSource' = Null
  /\ resolutionAtEnd' = Null
  /\ lutOrigin' = Null
  /\ UNCHANGED prevLut

\* lines 375-376 and 661-664: no image was analysed; the throw is caught,
\* the alert of line 663 is shown
FinishEmpty ==
  /\ processingStep' = "Error occurred"
  /\ runAlerts' = runAlerts + 1
  /\ UNCHANGED <<isBlackAndWhite, colorAnalysis, generatedLUT, history>>

\* faulty variant of Continue: setIsProcessing(false) ends the try block
\* and is not in a finally, so the throw of line 376 passes it by
ContinueNoFinally(r, analyses) ==
  IF r.i < Len(r.images)
  THEN /\ run' = [r EXCEPT !.i = r.i + 1, !.analyses = analyses]
       /\ processingStep' = "Analysing image"
       /\ UNCHANGED <<isProcessing, isBlackAndWhite, colorAnalysis, generatedLUT, history,
                      runAlerts, inFlight>>
  ELSE /\ run' = Null
       /\ inFlight' = inFlight - 1
       /\ IF Len(analyses) = 0
          THEN FinishEmpty /\ UNCHANGED isProcessing
          ELSE FinishSuccess(r, analyses) /\ isProcessing' = FALSE

\* the rest of generateAdvancedLUT after image r.i has settled, with the
\* analyses collected so far: the next image (lines 361-368), or lines 375-667
Continue(r, analyses) ==
  IF r.i < Len(r.images)
  THEN /\ run' = [r EXCEPT !.i = r.i + 1, !.analyses = analyses]
       /\ processingStep' = "Analysing image"
       /\ UNCHANGED <<isProcessing, isBlackAndWhite, colorAnalysis, generatedLUT, history,
                      runAlerts, inFlight>>
  ELSE /\ run' = Null
       /\ inFlight' = inFlight - 1
       /\ isProcessing' = FALSE
       /\ IF Len(analyses) = 0 THEN FinishEmpty ELSE FinishSuccess(r, analyses)

\* faulty variant of generateAdvancedLUT: the button is not disabled while
\* a run is in flight
generateAdvancedLUTAnyTime ==
  /\ UNCHANGED <<probe, answer, reading, selected>>
  /\ UserAction
  /\ Len(referenceImages) > 0
  /\ isProcessing' = TRUE
  /\ processingStep' = "Analysing image"
  /\ run' = [images |-> referenceImages, intensityLevel |-> intensityLevel,
             lutResolution |-> lutResolution, bwConversionMethod |-> bwConversionMethod,
             advancedMode |-> advancedMode, i |-> 1, analyses |-> <<>>]
  /\ inFlight' = inFlight + 1
  /\ outcomes' = <<>>
  /\ runAlerts' = 0
  /\ UNCHANGED <<referenceImages, generatedLUT, colorAnalysis, isBlackAndWhite,
                 settings, history, abandoned, download>>

\* click on the generate button (line 904), enabled as line 905 says; the
\* function runs to its first await (lines 353-368)
generateAdvancedLUT ==
  /\ UNCHANGED <<probe, answer, reading, selected>>
  /\ UserAction
  /\ Len(referenceImages) > 0
  /\ ~isProcessing
  /\ isProcessing' = TRUE
  /\ processingStep' = "Analysing image"
  /\ run' = [images |-> referenceImages, intensityLevel |-> intensityLevel,
             lutResolution |-> lutResolution, bwConversionMethod |-> bwConversionMethod,
             advancedMode |-> advancedMode, i |-> 1, analyses |-> <<>>]
  /\ inFlight' = inFlight + 1
  /\ outcomes' = <<>>
  /\ runAlerts' = 0
  /\ UNCHANGED <<referenceImages, generatedLUT, colorAnalysis, isBlackAndWhite,
                 settings, history, abandoned, download>>

\* downloadLUT (lines 670-688); its button is rendered only while
\* generatedLUT is set (line 920).  The date in the file name is left out.
downloadLUT ==
  /\ UNCHANGED <<probe, answer, reading, selected>>
  /\ UserAction
  /\ generatedLUT # Null
  /\ download' = [name |-> [lutType |-> IF isBlackAndWhite THEN "bw" ELSE "colour",
                            intensityLabel |-> intensityLevel,
                            resolutionLabel |-> lutResolution],
                  content |-> generatedLUT]
  /\ UNCHANGED <<referenceImages, isProcessing, generatedLUT, colorAnalysis,
                 processingStep, isBlackAndWhite, settings, run, outcomes, runAlerts,
                 history, abandoned, inFlight>>

\* faulty variant of ImgOnload: with advancedMode off the image is not tested
\* for being monochrome
ImgOnloadByMode ==
  /\ UNCHANGED <<probe, answer, reading, selected>>
  /\ run # Null
  /\ Continue(run, Append(run.analyses,
                          IF run.advancedMode
                          THEN analysisOf[run.images[run.i]]
                          ELSE [analysisOf[run.images[run.i]]
                                  EXCEPT !.isBlackAndWhite = FALSE]))
  /\ outcomes' = Append(outcomes, "ok")
  /\ UNCHANGED <<referenceImages, settings, uiEvents, abandoned, download>>

\* img.onload of the awaited image (lines 169-302) resolves the promise
ImgOnload ==
  /\ UNCHANGED <<probe, answer, reading, selected>>
  /\ run # Null
  /\ Continue(run, Append(run.analyses, analysisOf[run.images[run.i]]))
  /\ outcomes' = Append(outcomes, "ok")
  /\ UNCHANGED <<referenceImages, settings, uiEvents, abandoned, download>>

\* img.onload rejects: no image data, or an exception (lines 193, 303-306)
ImgOnloadReject ==
  /\ UNCHANGED <<probe, answer, reading, selected>>
  /\ run # Null
  /\ Continue(run, run.analyses)
  /\ outcomes' = Append(outcomes, "failed")
  /\ UNCHANGED <<referenceImages, settings, uiEvents, abandoned, download>>

\* img.onerror (lines 309-312)
ImgOnerror ==
  /\ UNCHANGED <<probe, answer, reading, selected>>
  /\ run # Null
  /\ Continue(run, run.analyses)
  /\ outcomes' = Append(outcomes, "failed")
  /\ UNCHANGED <<referenceImages, settings, uiEvents, abandoned, download>>

\* faulty variant of ImgTimeout: the rejection is not caught inside the loop
\* and ends the run in the outer catch
ImgTimeoutAbortsRun ==
  /\ UNCHANGED <<probe, answer, reading, selected>>
  /\ run # Null
  /\ run' = Null
  /\ inFlight' = inFlight - 1
  /\ isProcessing' = FALSE
  /\ FinishEmpty
  /\ outcomes' = Append(outcomes, "timeout")
  /\ abandoned' = abandoned + 1
  /\ UNCHANGED <<referenceImages, settings, uiEvents, download>>

\* the 30 s timer (lines 165-167): the promise is rejected, the image element
\* keeps loading with its handlers in place
ImgTimeout ==
  /\ UNCHANGED <<probe, answer, reading, selected>>
  /\ run # Null
  /\ Continue(run, run.analyses)
  /\ outcomes' = Append(outcomes, "timeout")
  /\ abandoned' = abandoned + 1
  /\ UNCHANGED <<referenceImages, settings, uiEvents, download>>

\* faulty variant of LateImgOnload: the late resolve is taken by the run in
\* flight as one more analysis
LateImgOnloadResolves ==
  /\ UNCHANGED <<probe, answer, reading, selected>>
  /\ abandoned > 0
  /\ abandoned' = abandoned - 1
  /\ run' = IF run = Null THEN run
            ELSE [run EXCEPT !.analyses = Append(@, analysisOf[run.images[1]])]
  /\ UNCHANGED <<referenceImages, isProcessing, generatedLUT, colorAnalysis,
                 processingStep, isBlackAndWhite, settings, download, uiEvents,
                 outcomes, runAlerts, history, inFlight>>

\* img.onload of an image the timer gave up (lines 169-302): the handler
\* decodes and samples the image, its resolve has no effect on the rejected
\* promise
LateImgOnload ==
  /\ UNCHANGED <<probe, answer, reading, selected>>
  /\ abandoned > 0
  /\ abandoned' = abandoned - 1
  /\ UNCHANGED <<referenceImages, isProcessing, generatedLUT, colorAnalysis,
                 processingStep, isBlackAndWhite, settings, run, download, uiEvents,
                 outcomes, runAlerts, history, inFlight>>

\* img.onerror of an image the timer gave up (lines 309-312)
LateImgOnerror ==
  /\ UNCHANGED <<probe, answer, reading, selected>>
  /\ abandoned > 0
  /\ abandoned' = abandoned - 1
  /\ UNCHANGED <<referenceImages, isProcessing, generatedLUT, colorAnalysis,
                 processingStep, isBlackAndWhite, settings, run, download, uiEvents,
                 outcomes, runAlerts, history, inFlight>>

Next ==
  \/ \E files \in Selections : handleImageUpload(files)
  \/ \E k \in 1..MaxImages : removeImage(k)
  \/ \E v \in IntensityLevels : setIntensityLevel(v)
  \/ \E v \in LutSizes : setLutResolution(v)
  \/ \E v \in Methods : setBwConversionMethod(v)
  \/ \E v \in BOOLEAN : setAdvancedMode(v)
  \/ generateAdvancedLUT
  \/ downloadLUT
  \/ ImgOnload
  \/ ImgOnloadReject
  \/ ImgOnerror
  \/ ImgTimeout
  \/ LateImgOnload
  \/ LateImgOnerror

\* the component under every interleaving of the user's actions and the
\* image events
Spec == Init /\ [][Next]_vars

\* One generation run on any upload under any settings: the state after an
\* upload and setting changes, then the first click on generate and the
\* events of its images.
InitRun ==
  /\ referenceImages \in Selections
  /\ isProcessing = FALSE
  /\ generatedLUT = Null
  /\ colorAnalysis = Null
  /\ processingStep = ""
  /\ isBlackAndWhite = FALSE
  /\ bwConversionMethod \in Methods
  /\ intensityLevel \in IntensityLevels
  /\ lutResolution \in LutSizes
  /\ advancedMode = TRUE
  /\ run = Null
  /\ selected = 0
  /\ reading = <<>>
  /\ inFlight = 0
  /\ abandoned = 0
  /\ download = Null
  /\ uiEvents = 0
  /\ outcomes = <<>>
  /\ runAlerts = 0
  /\ lutSource = Null
  /\ prevLut = Null
  /\ resolutionAtEnd = Null
  /\ lutOrigin = Null
  /\ probe = Null
  /\ answer = Null

NextRun ==
  \/ (processingStep = "" /\ generateAdvancedLUT)
  \/ ImgOnload
  \/ ImgOnloadReject
  \/ ImgOnerror
  \/ ImgTimeout
  \/ LateImgOnload
  \/ LateImgOnerror

SpecRun == InitRun /\ [][NextRun]_vars

\* the awaited image settles: it fires load or error, or else its timer of
\* 30 s fires (lines 165-167); these are the steps of a run that add to outcomes
ImageSettles ==
  /\ run # Null
  /\ outcomes' \in {Append(outcomes, "ok"), Append(outcomes, "failed"),
                    Append(outcomes, "timeout")}

\* one run in which no awaited image stays silent for ever
SpecRunLive == SpecRun /\ WF_outcomes(ImageSettles)

\* The settings handlers on change events whose value is not one of the
\* options rendered: setLutResolution(parseInt(e.target.value)) (line 815)
\* and setBwConversionMethod(e.target.value) take whatever the event
\* carries. A size of 1 and a size above the options stand for the integers
\* that are not options, "sepia" for the strings that are not methods.
OtherSizes == {1, MaxRes + 1}
OtherMethods == {"sepia"}

InitConfig ==
  /\ referenceImages \in Selections
  /\ isProcessing = FALSE
  /\ generatedLUT = Null
  /\ colorAnalysis = Null
  /\ processingStep = ""
  /\ isBlackAndWhite = FALSE
  /\ bwConversionMethod = "luminance"
  /\ intensityLevel = 3
  /\ lutResolution = 2
  /\ advancedMode = TRUE
  /\ run = Null
  /\ selected = 0
  /\ reading = <<>>
  /\ inFlight = 0
  /\ abandoned = 0
  /\ download = Null
  /\ uiEvents = 0
  /\ outcomes = <<>>
  /\ runAlerts = 0
  /\ lutSource = Null
  /\ prevLut = Null
  /\ resolutionAtEnd = Null
  /\ lutOrigin = Null
  /\ probe = Null
  /\ answer = Null

NextConfig ==
  \/ \E v \in LutSizes \cup OtherSizes : setLutResolution(v)
  \/ \E v \in Methods \cup OtherMethods : setBwConversionMethod(v)
  \/ (processingStep = "" /\ generateAdvancedLUT)
  \/ ImgOnload
  \/ ImgOnloadReject
  \/ ImgOnerror
  \/ ImgTimeout
  \/ LateImgOnload
  \/ LateImgOnerror

\* one generation run after an upload and change events of any value
SpecConfig == InitConfig /\ [][NextConfig]_vars

\* the settings that go into the file name, generation and download, from
\* the state after an upload
NextDownload ==
  \/ \E v \in IntensityLevels : setIntensityLevel(v)
  \/ \E v \in LutSizes : setLutResolution(v)
  \/ generateAdvancedLUT
  \/ downloadLUT
  \/ ImgOnload
  \/ ImgOnloadReject
  \/ ImgOnerror
  \/ ImgTimeout
  \/ LateImgOnload
  \/ LateImgOnerror

SpecDownload == InitConfig /\ [][NextDownload]_vars

\* ------------------------------------------------------------------ uploads
\* handleImageUpload with its file reads one by one.  The files of a
\* selection are told apart by their contents, which go round the three
\* images of the model.
MaxFiles == 10
FileCounts == {0, 1, 2, 3, MaxFiles, MaxFiles + 1}
KindAt(k) == CASE k % 3 = 1 -> "grey" [] k % 3 = 2 -> "warm" [] OTHER -> "mixed"
FilesOf(n) == [k \in 1..n |-> KindAt(k)]

\* an index of newImages that has not been assigned
Hole == "hole"

\* newImages.filter(Boolean) (line 341)
RECURSIVE FilterBoolean(_)
FilterBoolean(seq) ==
  IF seq = <<>> THEN <<>>
  ELSE (IF Head(seq) = Hole THEN <<>> ELSE <<Head(seq)>>) \o FilterBoolean(Tail(seq))

\* the number of files of the uploads whose reads have not all completed
RECURSIVE FilesInFlight(_)
FilesInFlight(ups) ==
  IF ups = <<>> THEN 0 ELSE Len(Head(ups).files) + FilesInFlight(Tail(ups))

\* faulty variant of handleImageUploadEvent: any number of files is taken
handleImageUploadEventNoLimit(files) ==
  /\ UNCHANGED <<probe, answer>>
  /\ UserAction
  /\ selected' = Len(files)
  /\ Len(reading) < MaxReading
  /\ FilesInFlight(reading) + Len(files) <= MaxFilesInFlight + 1
  /\ reading' = IF Len(files) = 0 THEN reading
                ELSE Append(reading, [files |-> files,
                                      newImages |-> [k \in 1..Len(files) |-> Hole],
                                      loadedCount |-> 0])
  /\ UNCHANGED <<referenceImages, isProcessing, generatedLUT, colorAnalysis,
                 processingStep, isBlackAndWhite, settings, run, history, output>>

\* the change event of the file input (lines 321-326, 328-345): more than 10
\* files are refused with an alert; otherwise a reader is started for each file
handleImageUploadEvent(files) ==
  /\ UNCHANGED <<probe, answer>>
  /\ UserAction
  /\ selected' = Len(files)
  /\ (Len(reading) < MaxReading /\ FilesInFlight(reading) + Len(files) <= MaxFilesInFlight)
     \/ Len(files) > MaxFiles
     \/ Len(files) = 0
  /\ reading' = IF Len(files) > MaxFiles \/ Len(files) = 0 THEN reading
                ELSE Append(reading, [files |-> files,
                                      newImages |-> [k \in 1..Len(files) |-> Hole],
                                      loadedCount |-> 0])
  /\ UNCHANGED <<referenceImages, isProcessing, generatedLUT, colorAnalysis,
                 processingStep, isBlackAndWhite, settings, run, history, output>>

\* faulty variant of ReadInto: the image is pushed, not stored at its index
ReadIntoPush(up, index) ==
  [up EXCEPT !.newImages[up.loadedCount + 1] = up.files[index],
             !.loadedCount = up.loadedCount + 1]

\* what reader.onload of file index leaves of upload up (lines 331-337)
ReadInto(up, index) ==
  [up EXCEPT !.newImages[index] = up.files[index], !.loadedCount = up.loadedCount + 1]

\* reader.onload of file index of the u-th upload in flight (lines 330-342)
readerOnload(u, index) ==
  /\ UNCHANGED <<probe, answer>>
  /\ u \in 1..Len(reading)
  /\ index \in 1..Len(reading[u].files)
  /\ reading[u].newImages[index] = Hole
  /\ IF ReadInto(reading[u], index).loadedCount = Len(reading[u].files)
     THEN /\ referenceImages' = FilterBoolean(ReadInto(reading[u], index).newImages)
          /\ reading' = RemoveAt(reading, u)
     ELSE /\ reading' = [reading EXCEPT ![u] = ReadInto(reading[u], index)]
          /\ UNCHANGED referenceImages
  /\ UNCHANGED <<isProcessing, generatedLUT, colorAnalysis, processingStep,
                 isBlackAndWhite, settings, run, history, output, uiEvents, selected>>

ReadCompletes == \E u \in 1..MaxReading : \E index \in 1..MaxFiles : readerOnload(u, index)

NextUpload ==
  \/ \E n \in FileCounts : handleImageUploadEvent(FilesOf(n))
  \/ ReadCompletes
  \/ \E k \in 1..MaxImages : removeImage(k)

\* the component as constructed, under uploads and removals
SpecUpload == Init /\ [][NextUpload]_vars

\* the accepted uploads alone, every read that has been started completing
ReadCounts == FileCounts \cap (1..MaxFiles)

NextReads ==
  \/ \E n \in ReadCounts : handleImageUploadEvent(FilesOf(n))
  \/ ReadCompletes

SpecUploadLive == Init /\ [][NextReads]_vars /\ WF_vars(ReadCompletes)

\* -------------------------------------------------------------- properties
Zones == {"shadows", "midtones", "highlights"}

\* the data lines of the LUT held in generatedLUT, and the settings its run
\* captured
HeldData == DataLines(generatedLUT)
HeldSize == lutSource.lutResolution
HeldLevel == lutSource.intensityLevel
HeldMethod == lutSource.bwConversionMethod

\* the lattice coordinate <<r, g, b>> of the data line of 0-based index k
\* when blue is outermost and red innermost, and its normalised input
CoordOf(k, n) == <<k % n, (k \div n) % n, k \div (n * n)>>
InputOf(k, n) ==
  <<(CoordOf(k, n)[1] * Scale) \div (n - 1), (CoordOf(k, n)[2] * Scale) \div (n - 1),
    (CoordOf(k, n)[3] * Scale) \div (n - 1)>>

SomeOk == \E k \in 1..Len(outcomes) : outcomes[k] = "ok"

\* C1: a completed run in which at least one image was analysed emits
\* exactly N * N * N data lines, N being the resolution the run was given.
C1_DataLineCount ==
  (run = Null /\ SomeOk) =>
     /\ generatedLUT # Null
     /\ Len(HeldData) = HeldSize * HeldSize * HeldSize
     /\ \A k \in 1..Len(HeldData) : HeldData[k].tag = "RGB"

C1_Witness ==
  /\ run = Null /\ SomeOk /\ generatedLUT # Null
  /\ HeldSize = MaxRes
  /\ Len(HeldData) = MaxRes * MaxRes * MaxRes

\* C2: the data lines are in blue-outermost, green-middle, red-innermost
\* order: the line of 0-based index k is the output computed for the lattice
\* coordinate r = k mod N, g = (k div N) mod N, b = k div N^2.
C2_LatticeOrder ==
  generatedLUT # Null =>
     \A k \in 0..(Len(HeldData) - 1) :
        HeldData[k + 1] =
           DataLine(CellOutput(InputOf(k, HeldSize), colorAnalysis,
                               transformsOf(colorAnalysis, HeldLevel),
                               HeldLevel, HeldMethod))

\* a LUT in which the lines of (r, g, b) = (1, 0, 0) and (0, 0, 1) differ
C2_Witness ==
  /\ generatedLUT # Null
  /\ HeldSize = MaxRes
  /\ HeldData[2] # HeldData[MaxRes * MaxRes + 1]

InUnitRange(x) == x # NaN /\ 0 <= x /\ x <= Scale * Scale

\* C3: every channel of every data line is a number in [0, 1] (the lines
\* carry six decimals, so a channel is 0..1000000 millionths).
C3_ChannelsInUnitRange ==
  generatedLUT # Null =>
     \A k \in 1..Len(HeldData) :
        InUnitRange(HeldData[k].r) /\ InUnitRange(HeldData[k].g)
           /\ InUnitRange(HeldData[k].b)

\* C4: the batch flag is the OR of the flags of the analysed images, in
\* whatever order they were analysed.
C4_BatchFlagIsOr ==
  colorAnalysis # Null =>
     /\ colorAnalysis.isBlackAndWhite =
           (\E k \in 1..Len(lutSource.analyses) : lutSource.analyses[k].isBlackAndWhite)
     /\ isBlackAndWhite = colorAnalysis.isBlackAndWhite

\* a colourful image analysed before a monochrome one
C4_Witness ==
  /\ colorAnalysis # Null
  /\ Len(lutSource.analyses) = 2
  /\ ~lutSource.analyses[1].isBlackAndWhite
  /\ lutSource.analyses[2].isBlackAndWhite
  /\ colorAnalysis.isBlackAndWhite

\* C5: with the batch flag true every data line is the monochrome branch's
\* output for its lattice point and has R = G = B; with the flag false every
\* data line is the colour branch's output for its lattice point.
C5_OneBranchPerRun ==
  generatedLUT # Null =>
     \A k \in 0..(Len(HeldData) - 1) :
        IF colorAnalysis.isBlackAndWhite
        THEN /\ HeldData[k + 1].r = HeldData[k + 1].g
             /\ HeldData[k + 1].g = HeldData[k + 1].b
             /\ HeldData[k + 1] =
                   DataLine(MonoCell(InputOf(k, HeldSize), colorAnalysis,
                                     HeldLevel, HeldMethod))
        ELSE HeldData[k + 1] =
                DataLine(ColourCell(InputOf(k, HeldSize),
                                    rgbToGrayscale(InputOf(k, HeldSize)[1],
                                                   InputOf(k, HeldSize)[2],
                                                   InputOf(k, HeldSize)[3], "luminance"),
                                    colorAnalysis,
                                    transformsOf(colorAnalysis, HeldLevel), HeldLevel))

\* a monochrome LUT from a batch of a monochrome and a colourful image
C5_Witness ==
  /\ generatedLUT # Null
  /\ colorAnalysis.isBlackAndWhite
  /\ \E k \in 1..Len(lutSource.analyses) : ~lutSource.analyses[k].isBlackAndWhite
  /\ HeldSize = MaxRes

\* C6: the data lines are a function of the analyses and the configuration
\* the run was given and of nothing else: they are what the synthesis gives
\* for these inputs alone, and two successive runs given the same inputs
\* leave the same lines.
C6_Determinism ==
  generatedLUT # Null =>
     /\ HeldData = lutDataOf(HeldSize, combineAnalyses(lutSource.analyses),
                             HeldLevel, HeldMethod)
     /\ (prevLut # Null /\ prevLut.source = lutSource) => prevLut.data = HeldData

\* a second run on the inputs of the first, started with the monochrome
\* flag the first run left
C6_Witness ==
  /\ generatedLUT # Null
  /\ prevLut # Null
  /\ prevLut.source = lutSource
  /\ prevLut.data = HeldData
  /\ colorAnalysis.isBlackAndWhite

NoNaNInZone(z) ==
  /\ z.rgb.r # NaN /\ z.rgb.g # NaN /\ z.rgb.b # NaN
  /\ z.luminance.avg # NaN
  /\ z.lab.L # NaN /\ z.lab.a # NaN /\ z.lab.b # NaN

\* C7: no zone of the combined analysis is the result of a division by a
\* zero weight; a zone sampled in no analysed image has weight 0 and the
\* all-zero rgb, luminance and lab values, and is an object, not null.
C7_NoDivisionByZeroWeight ==
  colorAnalysis # Null =>
     \A zone \in Zones :
        /\ colorAnalysis[zone] # Null
        /\ NoNaNInZone(colorAnalysis[zone])
        /\ (colorAnalysis[zone].weight = 0) =
              (\A k \in 1..Len(lutSource.analyses) : lutSource.analyses[k][zone] = Null)
        /\ (colorAnalysis[zone].weight = 0) => (colorAnalysis[zone] = EmptyZone)

\* a batch with an unsampled zone and a sampled one
C7_Witness ==
  /\ colorAnalysis # Null
  /\ Len(lutSource.analyses) = 2
  /\ colorAnalysis.highlights = EmptyZone
  /\ colorAnalysis.midtones.weight > 0

\* the weight of a zone step when the steps of zones of combined weight 0
\* are left out
SkipWeight(zone, weight) == IF zone.weight = 0 THEN 0 ELSE weight

\* the monochrome branch without the steps of the zones of weight 0
MonoMapSkipping(grayscale, shadowWeight, highlightWeight, combined, intensityFactor) ==
  MathMax(0, MathMin(Scale,
    MonoStep(
      MonoStep(
        MonoStep(grayscale, SkipWeight(combined.shadows, shadowWeight),
                 combined.shadows.luminance, 800, intensityFactor),
        SkipWeight(combined.midtones, MidtoneWeight(shadowWeight, highlightWeight)),
        combined.midtones.luminance, 600, intensityFactor),
      SkipWeight(combined.highlights, highlightWeight),
      combined.highlights.luminance, 800, intensityFactor)))

MonoOfGraySkipping(grayscale, combined, level) ==
  Grey(MonoMapSkipping(grayscale, ShadowWeight(grayscale, 300),
                       HighlightWeight(grayscale, 300), combined, level * 200))

\* the colour branch without the steps of the zones of weight 0
ZoneStepsSkipping(input, shadowWeight, highlightWeight, combined, transforms, strength) ==
  HighlightStep(
    MidtoneStep(
      ShadowStep(input, input, SkipWeight(combined.shadows, shadowWeight),
                 transforms.shadows, combined.shadows.rgb, strength),
      input, SkipWeight(combined.midtones, MidtoneWeight(shadowWeight, highlightWeight)),
      transforms.midtones, strength),
    input, SkipWeight(combined.highlights, highlightWeight), transforms.highlights,
    combined.highlights.rgb, strength)

ColourCellSkipping(input, luminance, combined, transforms, level) ==
  ContrastStep(
    SaturationStep(
      GlobalShift(
        ApplyMatrix(
          ZoneStepsSkipping(input, ShadowWeight(luminance, 350),
                            HighlightWeight(luminance, 350), combined, transforms,
                            level * 150),
          universalCameraProfile.colorMatrix),
        temperatureShiftOf(combined, level), tintShiftOf(combined, level)),
      saturationBoostOf(combined, level)),
    contrastBoostOf(combined, level))

CellOutputSkipping(input, combined, transforms, level, method) ==
  IF combined.isBlackAndWhite
  THEN MonoOfGraySkipping(rgbToGrayscale(input[1], input[2], input[3], method),
                          combined, level)
  ELSE ColourCellSkipping(input,
                          rgbToGrayscale(input[1], input[2], input[3], "luminance"),
                          combined, transforms, level)

\* C8: at every lattice point the data line is what the branch gives when
\* the blend step of every zone of combined weight 0 is left out.
C8_ZeroWeightZoneSkipped ==
  generatedLUT # Null =>
     \A k \in 0..(Len(HeldData) - 1) :
        HeldData[k + 1] =
           DataLine(CellOutputSkipping(InputOf(k, HeldSize), colorAnalysis,
                                       transformsOf(colorAnalysis, HeldLevel),
                                       HeldLevel, HeldMethod))

\* the analyses of the images that settled "ok", in the order of the images
RECURSIVE OkAnalyses(_, _, _)
OkAnalyses(images, outs, k) ==
  IF k > Len(outs) THEN <<>>
  ELSE (IF outs[k] = "ok" THEN <<analysisOf[images[k]]>> ELSE <<>>)
       \o OkAnalyses(images, outs, k + 1)

\* C9: a failed image is left out and the run goes on with the next image:
\* while the run is in flight every earlier image has settled and the
\* analyses are those of the images that loaded; when it has ended every
\* image has settled, a LUT is held if and only if some image loaded, it is
\* made from exactly the images that loaded, and the run has failed if and
\* only if no image loaded.
C9_FailureSkipsOneImage ==
  /\ run # Null =>
        /\ Len(outcomes) = run.i - 1
        /\ run.i <= Len(referenceImages)
        /\ run.analyses = OkAnalyses(referenceImages, outcomes, 1)
  /\ (run = Null /\ processingStep # "") =>
        /\ Len(outcomes) = Len(referenceImages)
        /\ (generatedLUT # Null) = SomeOk
        /\ (processingStep = "Complete!") = SomeOk
        /\ (processingStep = "Error occurred") = ~SomeOk
        /\ generatedLUT # Null =>
              lutSource.analyses = OkAnalyses(referenceImages, outcomes, 1)

\* the first image failed, the second was analysed and a LUT was made of it
C9_Witness ==
  /\ run = Null
  /\ outcomes = <<"failed", "ok">>
  /\ generatedLUT # Null
  /\ lutSource.analyses = <<analysisOf[referenceImages[2]]>>

\* a .cube text with its four header lines, the blank line and one data
\* line for each point of the lattice of the size in its header
CompleteArtifact(cube) ==
  /\ Len(cube) >= 5
  /\ cube[1].tag = "TITLE"
  /\ cube[2].tag = "DOMAIN_MIN"
  /\ cube[3].tag = "DOMAIN_MAX"
  /\ cube[4].tag = "LUT_3D_SIZE"
  /\ cube[5].tag = "BLANK"
  /\ Len(cube) = 5 + cube[4].size * cube[4].size * cube[4].size
  /\ \A k \in 6..Len(cube) : cube[k].tag = "RGB"

\* C10: in every state generatedLUT is null or a complete artifact, and so
\* is the text of every downloaded file.
C10_NoPartialLut ==
  /\ generatedLUT = Null \/ CompleteArtifact(generatedLUT)
  /\ download = Null \/ CompleteArtifact(download.content)

\* a LUT is held while the next run is in flight
C10_Witness ==
  /\ generatedLUT # Null
  /\ CompleteArtifact(generatedLUT)
  /\ isProcessing
  /\ run # Null

\* C11: the step that ends a run in which no image was analysed shows one
\* alert, sets processingStep to "Error occurred", ends the processing and
\* leaves generatedLUT, colorAnalysis and isBlackAndWhite as they are; the
\* steps of the run before it leave the three alone as well and show no alert.
C11_EmptyBatchAborts ==
  [][ /\ (run # Null /\ run' # Null /\ uiEvents' = uiEvents) =>
            /\ UNCHANGED <<generatedLUT, colorAnalysis, isBlackAndWhite>>
            /\ runAlerts' = 0
      /\ (run # Null /\ run' = Null /\ ~SomeOk') =>
            /\ processingStep' = "Error occurred"
            /\ runAlerts = 0 /\ runAlerts' = 1
            /\ ~isProcessing'
            /\ UNCHANGED <<generatedLUT, colorAnalysis, isBlackAndWhite>>
    ]_vars

\* a run with no analysed image has ended while the LUT of the run before is held
C11_Witness ==
  /\ run = Null
  /\ outcomes # <<>> /\ ~SomeOk
  /\ processingStep = "Error occurred"
  /\ runAlerts = 1
  /\ generatedLUT # Null /\ colorAnalysis # Null

\* the image handlers that can still run: that of the image the run awaits
\* and those of the images the timer gave up
PendingHandlers == (IF run # Null THEN 1 ELSE 0) + abandoned

\* C12: image i + 1 is started only when image i has settled, and the
\* handlers of two images are never pending together.
C12_OneImageAtATime ==
  /\ run # Null => Len(outcomes) = run.i - 1
  /\ PendingHandlers <= 1

\* ------------------------------------------------ functions on their own
\* One call of detectBlackAndWhite, of the sampling of analyzeImageAdvanced
\* or of rgbToGrayscale on arguments of its own.  A buffer is given by its
\* number of pixels; its pixels are grey (level base + step * index mod 256)
\* except the first `colourful` pixels at stride 10, which are orange, and,
\* with `off`, the pixels 5, 15, 25, ..., which are blue.
ProbePixel(p, j) ==
  IF j % 10 = 0 /\ j \div 10 < p.colourful THEN <<200, 100, 50, 255>>
  ELSE IF p.off /\ j % 10 = 5 THEN <<50, 100, 200, 255>>
  ELSE <<(p.base + p.step * j) % 256, (p.base + p.step * j) % 256,
         (p.base + p.step * j) % 256, 255>>

ProbeData(p) ==
  [i \in 1..(4 * p.pixels) |-> ProbePixel(p, (i - 1) \div 4)[((i - 1) % 4) + 1]]

DetectProbes ==
  [fn : {"detectBlackAndWhite"}, pixels : 0..MaxPixels, colourful : 0..2,
   off : BOOLEAN, base : {0}, step : {0}]

AnalyzeProbes ==
  [fn : {"analyzeImageAdvanced"}, pixels : 0..MaxPixels, colourful : 0..1,
   off : {FALSE}, base : {0, 64, 191}, step : {0, 7}]

Channels == {0, 300, 1000}

GrayscaleProbes ==
  [fn : {"rgbToGrayscale"}, r : Channels, g : Channels, b : Channels,
   method : Methods \cup {"sepia", Undefined}]

\* the weights of lines 519-527 (ramp of 0.3) and of lines 554-562 (ramp of
\* 0.35) for every gray or luminance value of the fixed-point scale
WeightProbes == [fn : {"zoneWeights"}, gray : 0..Scale, edge : {300, 350}]

\* the component as constructed, and one call to make
InitFn ==
  /\ referenceImages = <<>>
  /\ isProcessing = FALSE
  /\ generatedLUT = Null
  /\ colorAnalysis = Null
  /\ processingStep = ""
  /\ isBlackAndWhite = FALSE
  /\ bwConversionMethod = "luminance"
  /\ intensityLevel = 3
  /\ lutResolution = 2
  /\ advancedMode = TRUE
  /\ run = Null
  /\ selected = 0
  /\ reading = <<>>
  /\ inFlight = 0
  /\ abandoned = 0
  /\ download = Null
  /\ uiEvents = 0
  /\ outcomes = <<>>
  /\ runAlerts = 0
  /\ lutSource = Null
  /\ prevLut = Null
  /\ resolutionAtEnd = Null
  /\ lutOrigin = Null
  /\ probe \in DetectProbes \cup AnalyzeProbes \cup GrayscaleProbes \cup WeightProbes
  /\ answer = Null

component == <<referenceImages, isProcessing, generatedLUT, colorAnalysis, processingStep,
               isBlackAndWhite, settings, run, selected, reading, output, uiEvents,
               history>>

\* detectBlackAndWhite(imageData) (line 196)
CallDetectBlackAndWhite ==
  /\ probe.fn = "detectBlackAndWhite" /\ answer = Null
  /\ answer' = [value |-> detectBlackAndWhite(ProbeData(probe))]
  /\ UNCHANGED <<component, probe>>

\* the sampling loop and processZone on a decoded buffer (lines 196-302)
CallAnalyzeImageData ==
  /\ probe.fn = "analyzeImageAdvanced" /\ answer = Null
  /\ answer' = [value |-> analyzeImageData(ProbeData(probe))]
  /\ UNCHANGED <<component, probe>>

\* rgbToGrayscale(r, g, b, method), or rgbToGrayscale(r, g, b)
CallRgbToGrayscale ==
  /\ probe.fn = "rgbToGrayscale" /\ answer = Null
  /\ answer' = [value |-> rgbToGrayscale(probe.r, probe.g, probe.b, probe.method)]
  /\ UNCHANGED <<component, probe>>

\* shadowWeight, highlightWeight and midtoneWeight of one lattice point
\* (lines 519-527, 554-562)
CallZoneWeights ==
  /\ probe.fn = "zoneWeights" /\ answer = Null
  /\ answer' = [value |->
                  [shadowWeight |-> ShadowWeight(probe.gray, probe.edge),
                   highlightWeight |-> HighlightWeight(probe.gray, probe.edge),
                   midtoneWeight |-> MidtoneWeight(ShadowWeight(probe.gray, probe.edge),
                                                   HighlightWeight(probe.gray, probe.edge))]]
  /\ UNCHANGED <<component, probe>>

NextFn ==
  \/ CallDetectBlackAndWhite
  \/ CallAnalyzeImageData
  \/ CallRgbToGrayscale
  \/ CallZoneWeights

SpecFn == InitFn /\ [][NextFn]_vars

\* the byte offsets a loop with the given stride visits
SampledOffsets(data, stride) == {i \in 0..(Len(data) - 1) : i % stride = 0}

\* max(|R - G|, |G - B|, |R - B|) > 10 for the pixel at byte offset i
ColourfulAt(data, i) ==
  \/ data[i + 1] - data[i + 2] > 10 \/ data[i + 2] - data[i + 1] > 10
  \/ data[i + 2] - data[i + 3] > 10 \/ data[i + 3] - data[i + 2] > 10
  \/ data[i + 1] - data[i + 3] > 10 \/ data[i + 3] - data[i + 1] > 10

\* C13: detectBlackAndWhite is true exactly when the colourful ones among
\* the pixels visited at byte offsets 0, 40, 80, ... are fewer than 5 % of
\* the visited pixels (with no visited pixel the quotient is 0/0 and the
\* comparison false), whatever the byte length.
C13_DetectIsRatioOfVisited ==
  (answer # Null /\ probe.fn = "detectBlackAndWhite") =>
     answer.value =
        (/\ SampledOffsets(ProbeData(probe), 40) # {}
         /\ 100 * Cardinality({i \in SampledOffsets(ProbeData(probe), 40) :
                                  ColourfulAt(ProbeData(probe), i)})
               < 5 * Cardinality(SampledOffsets(ProbeData(probe), 40)))

\* 21 visited pixels, one of them colourful, in a buffer whose length is
\* not a multiple of 40
C13_Witness ==
  /\ answer # Null /\ probe.fn = "detectBlackAndWhite"
  /\ probe.pixels % 10 # 0
  /\ Cardinality(SampledOffsets(ProbeData(probe), 40)) = 21
  /\ probe.colourful = 1
  /\ answer.value = TRUE

\* the luminance of the pixel at byte offset i, and the zone of a luminance
LuminanceAt(data, i) ==
  Luminance((data[i + 1] * Scale) \div 255, (data[i + 2] * Scale) \div 255,
            (data[i + 3] * Scale) \div 255)
ZoneOfLuminance(l) ==
  IF l < 250 THEN "shadows" ELSE IF l < 750 THEN "midtones" ELSE "highlights"
VisitedInZone(data, zone) ==
  {i \in SampledOffsets(data, 64) : ZoneOfLuminance(LuminanceAt(data, i)) = zone}
CountOf(z) == IF z = Null THEN 0 ELSE z.count

\* C14: the pixels visited at stride 64 bytes are split by luminance at 0.25
\* and 0.75: each zone's count is the number of visited pixels in its range,
\* the three counts add up to the number of visited pixels, and a zone
\* without a visited pixel is null.
C14_ZonesPartitionSamples ==
  (answer # Null /\ probe.fn = "analyzeImageAdvanced") =>
     /\ \A zone \in Zones :
           IF VisitedInZone(ProbeData(probe), zone) = {}
           THEN answer.value[zone] = Null
           ELSE /\ answer.value[zone] # Null
                /\ answer.value[zone].count =
                      Cardinality(VisitedInZone(ProbeData(probe), zone))
     /\ CountOf(answer.value.shadows) + CountOf(answer.value.midtones)
           + CountOf(answer.value.highlights)
        = Cardinality(SampledOffsets(ProbeData(probe), 64))

\* a buffer whose first pixel has luminance 0.25 exactly, whose length is
\* not a multiple of the stride and which has no highlight
C14_Witness ==
  /\ answer # Null /\ probe.fn = "analyzeImageAdvanced"
  /\ probe.base = 64 /\ probe.step = 7 /\ probe.colourful = 0
  /\ probe.pixels % 16 # 0
  /\ LuminanceAt(ProbeData(probe), 0) = 250
  /\ answer.value.shadows # Null /\ answer.value.midtones # Null
  /\ answer.value.highlights = Null

\* C17: with a method that is none of the seven, and with the method left
\* out, rgbToGrayscale returns 0.299 r + 0.587 g + 0.114 b.
C17_UnknownMethodIsLuminance ==
  (answer # Null /\ probe.fn = "rgbToGrayscale" /\ probe.method \notin Methods) =>
     answer.value = (299 * probe.r + 587 * probe.g + 114 * probe.b) \div Scale

\* a triplet on which luminance, average, red, green, blue, max and min all differ
C17_Witness ==
  /\ answer # Null /\ probe.fn = "rgbToGrayscale"
  /\ probe.method \notin Methods
  /\ probe.r = 1000 /\ probe.g = 0 /\ probe.b = 300
  /\ answer.value = 333

RECURSIVE SumTo(_, _)
SumTo(f, n) == IF n = 0 THEN 0 ELSE f[n] + SumTo(f, n - 1)

\* the zone entry of image k of the run, Null when the image failed or has
\* no sampled pixel in the zone
ZoneOfImage(k, zone) ==
  IF outcomes[k] = "ok" THEN analysisOf[referenceImages[k]][zone] ELSE Null

\* the sum over the images of the run of count, or of count times a zone mean
TotalCount(zone) ==
  SumTo([k \in 1..Len(outcomes) |-> CountOf(ZoneOfImage(k, zone))], Len(outcomes))
TotalOf(zone, group, field) ==
  SumTo([k \in 1..Len(outcomes) |->
           IF ZoneOfImage(k, zone) = Null THEN 0
           ELSE ZoneOfImage(k, zone)[group][field] * ZoneOfImage(k, zone).count],
        Len(outcomes))

Reverse(seq) == [k \in 1..Len(seq) |-> seq[Len(seq) + 1 - k]]

\* C15: each combined zone weight is the number of sampled pixels of the
\* zone over the images that were analysed (failed images add nothing) and
\* is not negative; each mean of a zone with pixels is the sum of the
\* images' means times their counts, divided by the weight; the images in
\* the opposite order give the same zone.
C15_WeightsAreSampleCounts ==
  colorAnalysis # Null =>
     \A zone \in Zones :
        /\ colorAnalysis[zone].weight >= 0
        /\ colorAnalysis[zone].weight = TotalCount(zone)
        /\ TotalCount(zone) > 0 =>
              /\ colorAnalysis[zone].rgb.r =
                    TotalOf(zone, "rgb", "r") \div TotalCount(zone)
              /\ colorAnalysis[zone].rgb.g =
                    TotalOf(zone, "rgb", "g") \div TotalCount(zone)
              /\ colorAnalysis[zone].rgb.b =
                    TotalOf(zone, "rgb", "b") \div TotalCount(zone)
              /\ colorAnalysis[zone].luminance.avg =
                    TotalOf(zone, "luminance", "avg") \div TotalCount(zone)
              /\ colorAnalysis[zone].lab.L = TotalOf(zone, "lab", "L") \div TotalCount(zone)
              /\ colorAnalysis[zone].lab.a = TotalOf(zone, "lab", "a") \div TotalCount(zone)
              /\ colorAnalysis[zone].lab.b = TotalOf(zone, "lab", "b") \div TotalCount(zone)
        /\ colorAnalysis[zone] = combineAnalyses(Reverse(lutSource.analyses))[zone]

\* two analysed images with 2 and 1 midtone pixels
C15_Witness ==
  /\ colorAnalysis # Null
  /\ outcomes = <<"ok", "ok">>
  /\ referenceImages = <<"warm", "grey">>
  /\ colorAnalysis.midtones.weight = 3
  /\ colorAnalysis.shadows.weight = 2
  /\ colorAnalysis.highlights.weight = 0

\* the neutral base of a zone (lines 472, 476, 480)
NeutralOf(zone) ==
  CASE zone = "shadows" -> universalCameraProfile.shadows.lift
    [] zone = "midtones" -> universalCameraProfile.midtones.gamma
    [] zone = "highlights" -> universalCameraProfile.highlights.gain

\* clamp(((target / neutral) - 1) * (0.5 + (level - 1) * 0.25) + 1, 0.1, 3.0)
ClampedGain(target, neutral, level) ==
  Max2(100, Min2(3 * Scale,
     ((((target * Scale) \div neutral) - Scale) * (500 + (level - 1) * 250)) \div Scale
        + Scale))

\* C16: for every zone, channel and intensity level the gain of the combined
\* zone RGB is the clamped expression and lies in [0.1, 3.0].
C16_GainsClamped ==
  colorAnalysis # Null =>
     \A zone \in Zones : \A ch \in {"r", "g", "b"} : \A level \in IntensityLevels :
        /\ transformsOf(colorAnalysis, level)[zone][ch] =
              ClampedGain(colorAnalysis[zone].rgb[ch], NeutralOf(zone)[ch], level)
        /\ transformsOf(colorAnalysis, level)[zone][ch] >= 100
        /\ transformsOf(colorAnalysis, level)[zone][ch] <= 3 * Scale

\* an empty zone whose gain is held at 0.1 and a zone whose gain is held at 3.0
C16_Witness ==
  /\ colorAnalysis # Null
  /\ colorAnalysis.highlights = EmptyZone
  /\ transformsOf(colorAnalysis, 5).highlights.r = 100
  /\ transformsOf(colorAnalysis, 1).midtones.r > 100
  /\ transformsOf(colorAnalysis, 1).midtones.r < 3 * Scale
  /\ transformsOf(colorAnalysis, 5).shadows.b = 3 * Scale

\* C18: in the monochrome branch the starting value and the zone weights of
\* every lattice point come from rgbToGrayscale with the method the run was
\* given; with the method "red" the point (1, 0, 0) has gray 1, highlight
\* weight 1 and shadow weight 0.
C18_MethodHonoured ==
  (generatedLUT # Null /\ colorAnalysis.isBlackAndWhite) =>
     /\ \A k \in 0..(Len(HeldData) - 1) :
           HeldData[k + 1] =
              DataLine(MonoOfGray(rgbToGrayscale(InputOf(k, HeldSize)[1],
                                                 InputOf(k, HeldSize)[2],
                                                 InputOf(k, HeldSize)[3], HeldMethod),
                                  colorAnalysis, HeldLevel))
     /\ HeldMethod = "red" =>
           /\ InputOf(HeldSize - 1, HeldSize) = <<Scale, 0, 0>>
           /\ HeldData[HeldSize] =
                 DataLine(Grey(MonoMap(Scale, 0, Scale, colorAnalysis, HeldLevel * 200)))

\* a monochrome LUT by the method "red" whose line for (1, 0, 0) is not the
\* line the luminance of (1, 0, 0) gives
C18_Witness ==
  /\ generatedLUT # Null /\ colorAnalysis.isBlackAndWhite
  /\ HeldMethod = "red"
  /\ HeldData[HeldSize] # DataLine(MonoOfGray(299, colorAnalysis, HeldLevel))

\* C20: whenever a run writes a LUT, the N of its LUT_3D_SIZE line is the
\* resolution the run was started with and the header is followed by exactly
\* N^3 data lines, whatever the lutResolution state is by then.
C20_HeaderMatchesLoop ==
  [][ (run # Null /\ generatedLUT' # Null /\ generatedLUT' # generatedLUT) =>
         /\ generatedLUT'[4].tag = "LUT_3D_SIZE"
         /\ generatedLUT'[4].size = run.lutResolution
         /\ Len(generatedLUT') - 5 =
               run.lutResolution * run.lutResolution * run.lutResolution
         /\ \A k \in 6..Len(generatedLUT') : generatedLUT'[k].tag = "RGB" ]_vars

\* a LUT written by a run during which the resolution setting was changed
C20_Witness ==
  /\ generatedLUT # Null
  /\ resolutionAtEnd # generatedLUT[4].size
  /\ Len(generatedLUT) - 5 =
        generatedLUT[4].size * generatedLUT[4].size * generatedLUT[4].size

Settlings(images) == [1..Len(images) -> {"ok", "failed"}]

\* C21: advancedMode has no part in the result: whatever its value at the
\* click, the analyses of the LUT held are those of the images of its run
\* that loaded, the combined analysis is their combination, and the data
\* lines are those of the combined analysis and the three settings.
C21_AdvancedModeHasNoEffect ==
  generatedLUT # Null =>
     /\ \E o \in Settlings(lutOrigin.images) :
           lutSource.analyses = OkAnalyses(lutOrigin.images, o, 1)
     /\ colorAnalysis = combineAnalyses(lutSource.analyses)
     /\ HeldData = lutDataOf(HeldSize, colorAnalysis, HeldLevel, HeldMethod)

\* a LUT of a monochrome image from a run started with advancedMode off
C21_Witness ==
  /\ generatedLUT # Null
  /\ ~lutOrigin.advancedMode
  /\ lutOrigin.images = <<"grey">>
  /\ lutSource.analyses = <<analysisOf["grey"]>>
  /\ colorAnalysis.isBlackAndWhite

\* C22: a started run ends: isProcessing returns to false with
\* processingStep 'Complete!' or 'Error occurred'.
C22_RunTerminates ==
  isProcessing ~> (/\ ~isProcessing
                   /\ run = Null
                   /\ processingStep \in {"Complete!", "Error occurred"})

\* a run ended after its first image was given up by the timer
C22_Witness ==
  /\ ~isProcessing /\ run = Null
  /\ outcomes = <<"timeout", "ok">>
  /\ processingStep = "Complete!"

\* C23: every image of a run settles once: a step of the run settles the
\* awaited image and no other, what has settled stays as it settled, the
\* analyses are those of the images that settled by loading, and the load or
\* error event of an image the timer gave up changes nothing of the run or
\* of its result.
C23_SettlesOnce ==
  [][ /\ (run # Null /\ run' # run) =>
            /\ Len(outcomes') = Len(outcomes) + 1
            /\ SubSeq(outcomes', 1, Len(outcomes)) = outcomes
            /\ Len(outcomes') = run.i
            /\ run' # Null => (run'.i = run.i + 1 /\ run'.images = run.images)
      /\ (run # Null /\ run' = run) => outcomes' = outcomes
      /\ run' # Null => run'.analyses = OkAnalyses(run'.images, outcomes', 1)
      /\ (run # Null /\ run' = Null /\ SomeOk') =>
            lutSource'.analyses = OkAnalyses(run.images, outcomes', 1)
      /\ abandoned' < abandoned =>
            UNCHANGED <<run, outcomes, generatedLUT, colorAnalysis, isBlackAndWhite,
                        isProcessing, processingStep, lutSource>> ]_vars

\* the first image was given up by the timer and fired its event later; the
\* LUT is of the second image alone
C23_Witness ==
  /\ run = Null /\ abandoned = 0
  /\ Len(outcomes) = 2 /\ outcomes[1] = "timeout" /\ outcomes[2] = "ok"
  /\ generatedLUT # Null
  /\ lutSource.analyses = <<analysisOf[referenceImages[2]]>>

\* C24: a LUT held in generatedLUT is of a run on the images that are in
\* referenceImages now.
C24_LutOfCurrentImages ==
  generatedLUT # Null => lutOrigin.images = referenceImages

\* C25: the labels in the name of a downloaded file are those of its
\* content: the type and the intensity of the title and the size of the
\* LUT_3D_SIZE line.
C25_FileNameDescribesContent ==
  download # Null =>
     /\ download.name.lutType = (IF download.content[1].lutType = "B&W" THEN "bw" ELSE "colour")
     /\ download.name.intensityLabel = download.content[1].intensityLabel
     /\ download.name.resolutionLabel = download.content[4].size

\* C26: colorAnalysis is set exactly when generatedLUT is set; when they are
\* set, the isBlackAndWhite state is the flag of colorAnalysis and the type in
\* the title of the LUT; when they are not, the isBlackAndWhite state is false.
C26_ResultStateConsistent ==
  /\ (colorAnalysis = Null) <=> (generatedLUT = Null)
  /\ generatedLUT # Null =>
        /\ isBlackAndWhite = colorAnalysis.isBlackAndWhite
        /\ generatedLUT[1].lutType = (IF isBlackAndWhite THEN "B&W" ELSE "Colour")
  /\ generatedLUT = Null => ~isBlackAndWhite

\* the LUT of a run that ended well has been cleared by removeImage
C26_Witness ==
  /\ run = Null /\ SomeOk
  /\ generatedLUT = Null /\ colorAnalysis = Null /\ ~isBlackAndWhite
  /\ Len(referenceImages) < Len(outcomes)

\* C27: at most one call of generateAdvancedLUT is between its start and its
\* finally block, and isProcessing is true exactly while one is.
C27_OneRunAtATime ==
  /\ inFlight \in {0, 1}
  /\ isProcessing <=> (inFlight = 1)
  /\ isProcessing <=> (run # Null)

\* a second run in flight, after the first one has ended and left its LUT
C27_Witness ==
  /\ inFlight = 1 /\ isProcessing
  /\ generatedLUT # Null
  /\ run.images = lutOrigin.images

\* the change events of the file input are the steps that count as a user
\* action and leave referenceImages as it is (a removal shortens it)
UploadEvent == uiEvents' # uiEvents /\ referenceImages' = referenceImages

\* C28: referenceImages never holds more than 10 images; a selection of more
\* than 10 files changes nothing; a selection of 1 to 10 files starts their
\* reads and changes nothing else; when referenceImages is set by a read, it
\* is set to the files of one selection, whatever it held before.
C28_AtMostTenImages ==
  [][ /\ Len(referenceImages) <= MaxFiles /\ Len(referenceImages') <= MaxFiles
      /\ (UploadEvent /\ selected' > MaxFiles) => reading' = reading
      /\ (UploadEvent /\ selected' \in 1..MaxFiles) =>
            /\ Len(reading') = Len(reading) + 1
            /\ SubSeq(reading', 1, Len(reading)) = reading
            /\ Len(reading'[Len(reading')].files) = selected'
      /\ UploadEvent =>
            UNCHANGED <<isProcessing, generatedLUT, colorAnalysis, processingStep,
                        isBlackAndWhite, settings, run>>
      /\ (uiEvents' = uiEvents /\ referenceImages' # referenceImages) =>
            /\ \E u \in 1..Len(reading) : referenceImages' = reading[u].files
            /\ Len(referenceImages') \in 1..MaxFiles ]_vars

\* ten images are held and a selection of eleven files has been refused
C28_Witness ==
  /\ referenceImages = FilesOf(MaxFiles)
  /\ selected = MaxFiles + 1
  /\ reading = <<>>

C30_WeightsPartitionUnity ==
  (answer # Null /\ probe.fn = "zoneWeights") =>
     /\ answer.value.shadowWeight \in 0..Scale
     /\ answer.value.midtoneWeight \in 0..Scale
     /\ answer.value.highlightWeight \in 0..Scale
     /\ ~(answer.value.shadowWeight > 0 /\ answer.value.highlightWeight > 0)
     /\ answer.value.shadowWeight + answer.value.midtoneWeight
           + answer.value.highlightWeight = Scale

\* a gray value between the shadows and the midtones of the monochrome branch
C30_Witness ==
  /\ answer # Null /\ probe.fn = "zoneWeights"
  /\ probe.gray = 150 /\ probe.edge = 300
  /\ answer.value.shadowWeight = 500
  /\ answer.value.midtoneWeight = 500
  /\ answer.value.highlightWeight = 0

====
